---- MODULE Spec2Model ----
(***************************************************************************)
(* Plugin lifecycle orchestrator of cn-infra (core/agent_core.go):         *)
(* Agent.Start runs initPlugins and handleAfterInit in a goroutine and     *)
(* waits on errChannel, doneChannel and a timer; Agent.Stop closes the     *)
(* plugins in reverse order.  Plugins are identified by their index in     *)
(* agent.plugins (0-based, as in the Go code).                             *)
(***************************************************************************)
EXTENDS Integers, Sequences, FiniteSets, TLC

\* Largest number of plugins handed to NewAgent.
MaxPlugins == 3

VARIABLES
    n,                   \* len(agent.plugins)
    hasAfterInit,        \* plugin i implements PostInit
    hasClose,            \* plugin i exposes Close
    initSuccess,         \* agent.initSuccess
    afterInitSuccess,    \* agent.afterInitSuccess
    currentlyProcessing, \* agent.currentlyProcessing
    written,             \* every value currentlyProcessing has held so far
    bgpc,                \* position of the goroutine launched by Start
    bgI,                 \* its loop index i in initPlugins / handleAfterInit
    bgJ,                 \* its loop index in the rollback loop / in Stop
    bgErr,               \* its err: the error of the failed plugin call, then
                         \* the error it sends on errChannel
    doneClosed,          \* doneChannel has been closed
    callerpc,            \* position of the thread that calls Start and Stop
    callerJ,             \* loop index of the caller's Stop
    errMsg,              \* errMsg of the caller's Stop: names of failed Closes
    startResult,         \* what Start returned
    stopResult,          \* what the caller's Stop returned
    deadlineElapsed,     \* the timer of time.After has fired
    cpAtExpiry,          \* currentlyProcessing at the moment the timer fired,
                         \* kept until Start has returned
    bgLog,               \* plugin calls of the goroutine, in invocation order
    callerLog,           \* plugin calls of the caller's Stop, in invocation order
    initRes,             \* outcome of Init per plugin
    afterInitRes,        \* outcome of AfterInit per plugin
    httpPc,              \* httpmux: where the caller of Plugin.AfterInit is
    serverPc,            \* httpmux: where the goroutine of AfterInit is
    listenErr,           \* httpmux: what ListenAndServe returned
    waited,              \* httpmux: ms the select of AfterInit has waited
    httpResult           \* httpmux: what AfterInit returned

vars == <<n, hasAfterInit, hasClose, initSuccess, afterInitSuccess,
          currentlyProcessing, written, bgpc, bgI, bgJ, bgErr, doneClosed,
          callerpc, callerJ, errMsg, startResult, stopResult,
          deadlineElapsed, cpAtExpiry, bgLog, callerLog, initRes, afterInitRes,
          httpPc, serverPc, listenErr, waited, httpResult>>

agentVars == <<initSuccess, afterInitSuccess, currentlyProcessing, written>>
bgVars == <<bgpc, bgI, bgJ, bgErr, doneClosed>>
callerVars == <<callerpc, callerJ, errMsg, startResult, stopResult>>
logVars == <<bgLog, callerLog>>
timerVars == <<deadlineElapsed, cpAtExpiry>>
cfgVars == <<n, hasAfterInit, hasClose>>
resVars == <<initRes, afterInitRes>>
httpVars == <<httpPc, serverPc, listenErr, waited, httpResult>>

Plugins == 0 .. (n - 1)

\* hi, hi-1, ..., 0
Desc(hi) == [x \in 1 .. (hi + 1) |-> hi + 1 - x]
\* 0, 1, ..., hi
Asc(hi) == [x \in 1 .. (hi + 1) |-> x - 1]

NoErr == [src |-> "", idx |-> -1]
NoName == [name |-> -1, op |-> ""]
NoResult == [kind |-> "none", name |-> -1, op |-> "", err |-> NoErr]

\* plug.PluginName + " Init()" / " AfterInit()"
ProcessingName(i, op) == [name |-> i, op |-> op]

\* the error value a failing plugin call returns
PluginErr(op, i) == [src |-> op, idx |-> i]

\* fmt.Errorf(logErrorFmt, plug.PluginName, err, ...)
InitError(i, err) == [kind |-> "Init", name |-> i, op |-> "Init", err |-> err]

\* fmt.Errorf(logPostErrorFmt, plug.PluginName, err, ...)
AfterInitError(i, err) ==
    [kind |-> "AfterInit", name |-> i, op |-> "AfterInit", err |-> err]

\* fmt.Errorf(logTimeoutFmt, agent.currentlyProcessing)
TimeoutError(cp) ==
    [kind |-> "timeout", name |-> cp.name, op |-> cp.op, err |-> NoErr]

Success == [kind |-> "success", name |-> -1, op |-> "", err |-> NoErr]

\* safeclose.Close(obj): calls Close when obj exposes it and returns its
\* error, and returns nil otherwise
CloseOutcomes(j) == IF hasClose[j] THEN {"ok", "fail"} ELSE {"absent"}

Call(op, i, res) == [op |-> op, idx |-> i, res |-> res]

Init ==
    /\ n \in 0 .. MaxPlugins
    /\ hasAfterInit \in [0 .. (n - 1) -> BOOLEAN]
    /\ hasClose \in [0 .. (n - 1) -> BOOLEAN]
    /\ initSuccess = <<>>
    /\ afterInitSuccess = <<>>
    /\ currentlyProcessing = NoName
    /\ written = {NoName}
    /\ bgpc = "idle"
    /\ bgI = 0
    /\ bgJ = 0
    /\ bgErr = NoResult
    /\ doneClosed = FALSE
    /\ callerpc = "idle"
    /\ callerJ = 0
    /\ errMsg = <<>>
    /\ startResult = NoResult
    /\ stopResult = <<>>
    /\ deadlineElapsed = FALSE
    /\ cpAtExpiry = NoName
    /\ bgLog = <<>>
    /\ callerLog = <<>>
    /\ initRes = [i \in 0 .. (n - 1) |-> "none"]
    /\ afterInitRes = [i \in 0 .. (n - 1) |-> "none"]
    /\ httpPc = "idle"
    /\ serverPc = "idle"
    /\ listenErr = "none"
    /\ waited = 0
    /\ httpResult = "none"

----------------------------------------------------------------------------
\* Agent.Start, caller side

\* Start up to the go statement: the goroutine exists, select not yet entered
StartLaunch ==
    /\ callerpc = "idle"
    /\ callerpc' = "launched"
    /\ bgpc' = "init"
    /\ bgI' = 0
    /\ UNCHANGED <<cfgVars, httpVars, agentVars, bgJ, bgErr, doneClosed, callerJ, errMsg,
                   startResult, stopResult, timerVars, logVars, resVars>>

\* a Start that enters the select only when the goroutine is through
StartSelectJoined ==
    /\ callerpc = "launched"
    /\ bgpc \in {"blockedSend", "done"}
    /\ IF bgpc = "blockedSend"
       THEN /\ startResult' = bgErr
            /\ bgpc' = "done"
       ELSE /\ startResult' = Success
            /\ bgpc' = bgpc
    /\ callerpc' = "returned"
    /\ UNCHANGED <<cfgVars, httpVars, agentVars, bgI, bgJ, bgErr, doneClosed, callerJ,
                   errMsg, stopResult, timerVars, logVars, resVars>>

\* The caller reaches the select: a sender already waiting on errChannel or a
\* closed doneChannel is taken at once, otherwise the caller parks.
StartSelect ==
    /\ callerpc = "launched"
    /\ IF bgpc = "blockedSend"
       THEN /\ startResult' = bgErr
            /\ callerpc' = "returned"
            /\ bgpc' = "done"
       ELSE IF doneClosed
       THEN /\ startResult' = Success
            /\ callerpc' = "returned"
            /\ bgpc' = bgpc
       ELSE /\ callerpc' = "select"
            /\ UNCHANGED <<startResult, bgpc>>
    /\ UNCHANGED <<cfgVars, httpVars, agentVars, bgI, bgJ, bgErr, doneClosed, callerJ,
                   errMsg, stopResult, timerVars, logVars, resVars>>

\* time.After(agent.MaxStartupTime) fires while the caller is parked: the
\* timer is created when the select is entered and MaxStartupTime is positive,
\* and the event that wakes the parked caller decides the branch it takes
TimerFire ==
    /\ callerpc = "select"
    /\ callerpc' = "timeoutBranch"
    /\ deadlineElapsed' = TRUE
    /\ cpAtExpiry' = currentlyProcessing
    /\ UNCHANGED <<cfgVars, httpVars, agentVars, bgVars, callerJ, errMsg, startResult,
                   stopResult, logVars, resVars>>

\* The value the caller's unsynchronised read of agent.currentlyProcessing can
\* yield while the goroutine may be writing it: any value written so far.
RacyRead == written

\* a timeout branch that shuts the plugins down before it returns
StartTimeoutRollsBack ==
    /\ callerpc = "timeoutBranch"
    /\ \E cp \in RacyRead : startResult' = TimeoutError(cp)
    /\ callerpc' = "stopping"
    /\ callerJ' = n - 1
    /\ errMsg' = <<>>
    /\ cpAtExpiry' = NoName
    /\ UNCHANGED <<cfgVars, httpVars, agentVars, bgVars, stopResult, deadlineElapsed,
                   logVars, resVars>>

\* case <-time.After(...): return fmt.Errorf(logTimeoutFmt, currentlyProcessing)
StartTimeout ==
    /\ callerpc = "timeoutBranch"
    /\ \E cp \in RacyRead : startResult' = TimeoutError(cp)
    /\ callerpc' = "returned"
    /\ cpAtExpiry' = NoName
    /\ UNCHANGED <<cfgVars, httpVars, agentVars, bgVars, callerJ, errMsg, stopResult,
                   deadlineElapsed, logVars, resVars>>

----------------------------------------------------------------------------
\* Agent.initPlugins

\* agent.currentlyProcessing = ...; plug.Init() is invoked
InitCall ==
    /\ bgpc = "init"
    /\ bgI < n
    /\ currentlyProcessing' = ProcessingName(bgI, "Init")
    /\ written' = written \cup {ProcessingName(bgI, "Init")}
    /\ bgLog' = Append(bgLog, Call("Init", bgI, "invoked"))
    /\ initRes' = [initRes EXCEPT ![bgI] = "running"]
    /\ bgpc' = "inInit"
    /\ UNCHANGED <<cfgVars, httpVars, initSuccess, afterInitSuccess, bgI, bgJ, bgErr,
                   doneClosed, callerVars, timerVars, callerLog, afterInitRes>>

\* a rollback that leaves out the plugin whose Init failed
RollbackFirstSkipsFailing(i) == i - 1

\* for j := i; ...: the first plugin the rollback of a failed Init closes
RollbackFirst(i) == i

\* a rollback loop that never moves on
RollbackNextStuck(j) == j

\* j--: the plugin the rollback closes after plugin j
RollbackNext(j) == j - 1

\* an Init error that is not looked at
InitErrIgnored(ok) == FALSE

\* err != nil after plug.Init(); ok tells whether Init succeeded
InitErr(ok) == ~ok

\* a success that is recorded twice
InitSucceededTwice(list, i) == Append(Append(list, i), i)

\* a success that is not recorded
InitSucceededDropped(list, i) == list

\* agent.initSuccess = append(agent.initSuccess, plug)
InitSucceeded(list, i) == Append(list, i)

\* plug.Init() returns
InitReturn ==
    /\ bgpc = "inInit"
    /\ \E ok \in BOOLEAN :
          /\ initRes' = [initRes EXCEPT ![bgI] = IF ok THEN "ok" ELSE "fail"]
          /\ IF ~InitErr(ok)
             THEN /\ initSuccess' = InitSucceeded(initSuccess, bgI)
                  /\ bgI' = bgI + 1
                  /\ bgpc' = "init"
                  /\ UNCHANGED <<bgJ, bgErr>>
             ELSE /\ bgJ' = RollbackFirst(bgI)
                  /\ bgErr' = [NoResult EXCEPT !.err = PluginErr("Init", bgI)]
                  /\ bgpc' = IF RollbackFirst(bgI) >= 0
                             THEN "rollback" ELSE "initFailed"
                  /\ UNCHANGED <<initSuccess, bgI>>
    /\ UNCHANGED <<cfgVars, httpVars, afterInitSuccess, currentlyProcessing, written,
                   doneClosed, callerVars, timerVars, logVars, afterInitRes>>

\* a rollback whose Close result is assigned to the err of the failed Init
RollbackErrOverwritten(err, j, res) ==
    IF res = "fail" THEN PluginErr("Close", j) ELSE NoErr

\* err := safeclose.Close(...) declares an err of its own inside the loop:
\* the err of the failed Init is left as it is
RollbackErr(err, j, res) == err

\* one iteration of the rollback loop: safeclose.Close(agent.plugins[j])
RollbackClose ==
    /\ bgpc = "rollback"
    /\ bgJ >= 0
    /\ \E res \in CloseOutcomes(bgJ) :
          /\ bgLog' = Append(bgLog, Call("Close", bgJ, res))
          /\ bgErr' = [bgErr EXCEPT !.err = RollbackErr(bgErr.err, bgJ, res)]
    /\ bgJ' = RollbackNext(bgJ)
    /\ bgpc' = IF RollbackNext(bgJ) >= 0 THEN "rollback" ELSE "initFailed"
    /\ UNCHANGED <<cfgVars, httpVars, agentVars, bgI, doneClosed, callerVars,
                   timerVars, callerLog, resVars>>

\* return fmt.Errorf(logErrorFmt, plug.PluginName, err, ...), and in Start
\* err != nil: the goroutine turns to errChannel <- err
InitFailed ==
    /\ bgpc = "initFailed"
    /\ bgErr' = InitError(bgI, bgErr.err)
    /\ bgpc' = "sendErr"
    /\ UNCHANGED <<cfgVars, httpVars, agentVars, bgI, bgJ, doneClosed, callerVars,
                   timerVars, logVars, resVars>>

\* the loop of initPlugins is over: return nil, handleAfterInit begins
InitDone ==
    /\ bgpc = "init"
    /\ bgI >= n
    /\ bgpc' = "afterInit"
    /\ bgI' = 0
    /\ UNCHANGED <<cfgVars, httpVars, agentVars, bgJ, bgErr, doneClosed, callerVars,
                   timerVars, logVars, resVars>>

----------------------------------------------------------------------------
\* Agent.handleAfterInit

\* AfterInit invoked without asking for the capability
PostInitAlways(i) == TRUE

\* plug.Plugin.(PostInit)
PostInit(i) == hasAfterInit[i]

\* agent.currentlyProcessing = ...; then AfterInit() is invoked on a plugin
\* that implements PostInit, and the plugin is passed over otherwise
AfterInitCall ==
    /\ bgpc = "afterInit"
    /\ bgI < n
    /\ currentlyProcessing' = ProcessingName(bgI, "AfterInit")
    /\ written' = written \cup {ProcessingName(bgI, "AfterInit")}
    /\ IF PostInit(bgI)
       THEN /\ bgLog' = Append(bgLog, Call("AfterInit", bgI, "invoked"))
            /\ afterInitRes' = [afterInitRes EXCEPT ![bgI] = "running"]
            /\ bgpc' = "inAfterInit"
            /\ bgI' = bgI
       ELSE /\ bgI' = bgI + 1
            /\ UNCHANGED <<bgLog, afterInitRes, bgpc>>
    /\ UNCHANGED <<cfgVars, httpVars, initSuccess, afterInitSuccess, bgJ, bgErr,
                   doneClosed, callerVars, timerVars, callerLog, initRes>>

\* a Stop that goes through the after-initialized plugins only
StopFirstAfterInitialized == Len(afterInitSuccess) - 1

\* a Stop that goes through the initialized plugins only
StopFirstInitialized == Len(initSuccess) - 1

\* for i := len(agent.plugins) - 1; ...: the first plugin Stop closes
StopFirst == n - 1

\* an AfterInit error that is not looked at
AfterInitErrIgnored(ok) == FALSE

\* err != nil after plug2.AfterInit(); ok tells whether AfterInit succeeded
AfterInitErr(ok) == ~ok

\* a success list built in reverse
AfterInitSucceededPrepended(list, i) == <<i>> \o list

\* agent.afterInitSuccess = append(agent.afterInitSuccess, plug)
AfterInitSucceeded(list, i) == Append(list, i)

\* plug2.AfterInit() returns; on an error agent.Stop() begins
AfterInitReturn ==
    /\ bgpc = "inAfterInit"
    /\ \E ok \in BOOLEAN :
          /\ afterInitRes' =
                [afterInitRes EXCEPT ![bgI] = IF ok THEN "ok" ELSE "fail"]
          /\ IF ~AfterInitErr(ok)
             THEN /\ afterInitSuccess' = AfterInitSucceeded(afterInitSuccess, bgI)
                  /\ bgI' = bgI + 1
                  /\ bgpc' = "afterInit"
                  /\ UNCHANGED <<bgJ, bgErr>>
             ELSE /\ bgJ' = StopFirst
                  /\ bgErr' =
                        [NoResult EXCEPT !.err = PluginErr("AfterInit", bgI)]
                  /\ bgpc' = "bgStop"
                  /\ UNCHANGED <<afterInitSuccess, bgI>>
    /\ UNCHANGED <<cfgVars, httpVars, initSuccess, currentlyProcessing, written,
                   doneClosed, callerVars, timerVars, logVars, initRes>>

\* errMsg after safeclose.Close of plugin j returned res
StopErrMsg(msg, j, res) == IF res = "fail" THEN Append(msg, j) ELSE msg

\* a Stop that gives up at the first Close error
StopNextBreakOnError(j, res) == IF res = "fail" THEN -1 ELSE j - 1

\* the loop goes on to the next plugin whatever Close returned
StopNext(j, res) == j - 1

\* one iteration of the loop of the agent.Stop() that handleAfterInit calls
BgStopStep ==
    /\ bgpc = "bgStop"
    /\ bgJ >= 0
    /\ \E res \in CloseOutcomes(bgJ) :
          /\ bgLog' = Append(bgLog, Call("Close", bgJ, res))
          /\ bgJ' = StopNext(bgJ, res)
    /\ UNCHANGED <<cfgVars, httpVars, agentVars, bgpc, bgI, bgErr, doneClosed, callerVars,
                   timerVars, callerLog, resVars>>

\* agent.Stop() has returned (its error is dropped):
\* return fmt.Errorf(logPostErrorFmt, ...), then errChannel <- err
AfterInitFailed ==
    /\ bgpc = "bgStop"
    /\ bgJ < 0
    /\ bgErr' = AfterInitError(bgI, bgErr.err)
    /\ bgpc' = "sendErr"
    /\ UNCHANGED <<cfgVars, httpVars, agentVars, bgI, bgJ, doneClosed, callerVars,
                   timerVars, logVars, resVars>>

----------------------------------------------------------------------------
\* Agent.Start, goroutine side

\* errChannel <- err on the unbuffered channel: handed to a parked caller,
\* and the goroutine blocks when no receiver is waiting
BgSendErr ==
    /\ bgpc = "sendErr"
    /\ IF callerpc = "select"
       THEN /\ startResult' = bgErr
            /\ callerpc' = "returned"
            /\ bgpc' = "done"
       ELSE /\ bgpc' = "blockedSend"
            /\ UNCHANGED <<startResult, callerpc>>
    /\ UNCHANGED <<cfgVars, httpVars, agentVars, bgI, bgJ, bgErr, doneClosed, callerJ,
                   errMsg, stopResult, timerVars, logVars, resVars>>

\* handleAfterInit returned nil: close(doneChannel) wakes a parked caller,
\* which returns nil
BgCloseDone ==
    /\ bgpc = "afterInit"
    /\ bgI >= n
    /\ doneClosed' = TRUE
    /\ bgpc' = "done"
    /\ IF callerpc = "select"
       THEN /\ startResult' = Success
            /\ callerpc' = "returned"
       ELSE UNCHANGED <<startResult, callerpc>>
    /\ UNCHANGED <<cfgVars, httpVars, agentVars, bgI, bgJ, bgErr, callerJ, errMsg,
                   stopResult, timerVars, logVars, resVars>>

----------------------------------------------------------------------------
\* Agent.Stop, called by the caller after Start has returned

StopBegin ==
    /\ callerpc = "returned"
    /\ callerpc' = "stopping"
    /\ callerJ' = StopFirst
    /\ errMsg' = <<>>
    /\ UNCHANGED <<cfgVars, httpVars, agentVars, bgVars, startResult, stopResult,
                   timerVars, logVars, resVars>>

StopStep ==
    /\ callerpc = "stopping"
    /\ callerJ >= 0
    /\ \E res \in CloseOutcomes(callerJ) :
          /\ callerLog' = Append(callerLog, Call("Close", callerJ, res))
          /\ errMsg' = StopErrMsg(errMsg, callerJ, res)
          /\ callerJ' = StopNext(callerJ, res)
    /\ UNCHANGED <<cfgVars, httpVars, agentVars, bgVars, callerpc, startResult,
                   stopResult, timerVars, bgLog, resVars>>

\* if len(errMsg) > 0 { return errors.New(errMsg) }; return nil
StopReturn ==
    /\ callerpc = "stopping"
    /\ callerJ < 0
    /\ stopResult' = errMsg
    /\ callerpc' = "stopped"
    /\ UNCHANGED <<cfgVars, httpVars, agentVars, bgVars, callerJ, errMsg, startResult,
                   timerVars, logVars, resVars>>

----------------------------------------------------------------------------
\* Agent.calculateDiff

RECURSIVE FoundFrom(_, _, _)
\* the inner loop from position x on: found = true when plugin == initialized
FoundFrom(plugin, initialized, x) ==
    IF x > Len(initialized)
    THEN FALSE
    ELSE initialized[x] = plugin \/ FoundFrom(plugin, initialized, x + 1)

\* a found flag that is assigned the last comparison
FoundLastOnly(plugin, initialized) ==
    Len(initialized) > 0 /\ initialized[Len(initialized)] = plugin

\* found after the inner loop over initialized
Found(plugin, initialized) == FoundFrom(plugin, initialized, 1)

RECURSIVE DiffFrom(_, _)
\* the outer loop from plugin i on: diff = append(diff, plugin) when !found
DiffFrom(initialized, i) ==
    IF i >= n
    THEN <<>>
    ELSE (IF Found(i, initialized) THEN <<>> ELSE <<i>>)
         \o DiffFrom(initialized, i + 1)

calculateDiff(initialized) == DiffFrom(initialized, 0)

\* errInit and errAfterInit that Start logs when it fails
ErrInit == calculateDiff(initSuccess)
ErrAfterInit == calculateDiff(afterInitSuccess)

----------------------------------------------------------------------------
Next ==
    \/ StartLaunch
    \/ StartSelect
    \/ TimerFire
    \/ StartTimeout
    \/ InitCall
    \/ InitReturn
    \/ RollbackClose
    \/ InitFailed
    \/ InitDone
    \/ AfterInitCall
    \/ AfterInitReturn
    \/ BgStopStep
    \/ AfterInitFailed
    \/ BgSendErr
    \/ BgCloseDone
    \/ StopBegin
    \/ StopStep
    \/ StopReturn

Spec == Init /\ [][Next]_vars

\* the steps of the goroutine launched by Start
BgNext ==
    \/ InitCall
    \/ InitReturn
    \/ RollbackClose
    \/ InitFailed
    \/ InitDone
    \/ AfterInitCall
    \/ AfterInitReturn
    \/ BgStopStep
    \/ AfterInitFailed
    \/ BgSendErr
    \/ BgCloseDone

\* Start alone: the caller's steps in Start and the goroutine's steps
StartNext ==
    \/ StartLaunch
    \/ StartSelect
    \/ TimerFire
    \/ StartTimeout
    \/ BgNext

\* Start with a caller that keeps running and a timer that fires; nothing is
\* assumed of the goroutine: a plugin call may never return
LiveSpec ==
    /\ Init
    /\ [][StartNext]_vars
    /\ WF_vars(StartLaunch)
    /\ WF_vars(StartSelect)
    /\ WF_vars(TimerFire)
    /\ WF_vars(StartTimeout)

----------------------------------------------------------------------------
\* httpmux Plugin.AfterInit

\* time.After(100 * time.Millisecond)
HTTPWaitMs == 100

\* errors ListenAndServe returns when the server cannot be started; it
\* returns no nil error, so the else branch of the goroutine is not taken
ListenErrs == {"EADDRINUSE", "EACCES"}

\* var errCh chan error: declared and never made, the nil channel
errCh == "nil"

\* all of the agent's variables
coreVars == <<cfgVars, agentVars, bgVars, callerVars, timerVars, logVars,
              resVars>>

\* AfterInit up to the go statement: plugin.server is set, the goroutine
\* exists and is in ListenAndServe
HttpLaunch ==
    /\ httpPc = "idle"
    /\ httpPc' = "launched"
    /\ serverPc' = "listening"
    /\ UNCHANGED <<coreVars, listenErr, waited, httpResult>>

\* plugin.server.ListenAndServe() returns err /= nil
HttpListenReturn ==
    /\ serverPc = "listening"
    /\ \E err \in ListenErrs : listenErr' = err
    /\ serverPc' = "sendErr"
    /\ UNCHANGED <<coreVars, httpPc, waited, httpResult>>

\* errCh <- err: handed to a caller parked in the select when errCh is a
\* channel; a send on the nil channel blocks for ever
HttpSendErr ==
    /\ serverPc = "sendErr"
    /\ IF errCh /= "nil" /\ httpPc = "select"
       THEN /\ httpResult' = listenErr
            /\ httpPc' = "returned"
            /\ serverPc' = "done"
       ELSE /\ serverPc' = "blockedSend"
            /\ UNCHANGED <<httpResult, httpPc>>
    /\ UNCHANGED <<coreVars, listenErr, waited>>

\* the caller reaches the select: a sender waiting on errCh is taken at once
\* when errCh is a channel; the case of a nil channel is never ready, and the
\* caller parks with the timer started
HttpSelect ==
    /\ httpPc = "launched"
    /\ IF errCh /= "nil" /\ serverPc = "blockedSend"
       THEN /\ httpResult' = listenErr
            /\ httpPc' = "returned"
            /\ serverPc' = "done"
       ELSE /\ httpPc' = "select"
            /\ UNCHANGED <<httpResult, serverPc>>
    /\ UNCHANGED <<coreVars, listenErr, waited>>

\* a millisecond passes while the caller is parked in the select
HttpTick ==
    /\ httpPc = "select"
    /\ waited < HTTPWaitMs
    /\ waited' = waited + 1
    /\ UNCHANGED <<coreVars, httpPc, serverPc, listenErr, httpResult>>

\* case <-time.After(100 * time.Millisecond): return nil
HttpTimeout ==
    /\ httpPc = "select"
    /\ waited = HTTPWaitMs
    /\ httpResult' = "nil"
    /\ httpPc' = "returned"
    /\ UNCHANGED <<coreVars, serverPc, listenErr, waited>>

HttpNext ==
    \/ HttpLaunch
    \/ HttpListenReturn
    \/ HttpSendErr
    \/ HttpSelect
    \/ HttpTick
    \/ HttpTimeout

\* the httpmux plugin on its own: AfterInit called once, the agent at rest
HttpInit == Init /\ n = 0

HttpSpec == HttpInit /\ [][HttpNext]_vars

----------------------------------------------------------------------------
\* Reading the call logs

\* the Close entries of a log, in order
Closes(lg) == SelectSeq(lg, LAMBDA c : c.op = "Close")

\* the plugin indices of a log's entries, in order
Idx(lg) == [x \in 1 .. Len(lg) |-> lg[x].idx]

\* the operations of a log's entries, in order
Ops(lg) == [x \in 1 .. Len(lg) |-> lg[x].op]

Invoked(lg, op, i) == \E x \in 1 .. Len(lg) : lg[x].op = op /\ lg[x].idx = i

\* Start has returned and the caller has not yet called Stop
StartReturned == callerpc = "returned"

AnyFailure ==
    \E i \in Plugins : initRes[i] = "fail" \/ afterInitRes[i] = "fail"

\* the Init failure / AfterInit failure Start reports for plugin k
InitFailureOf(k) == InitError(k, PluginErr("Init", k))
AfterInitFailureOf(k) == AfterInitError(k, PluginErr("AfterInit", k))

----------------------------------------------------------------------------
\* C1: when every Init and AfterInit succeeded and the deadline did not elapse
\* before the two phases finished, Start returns success, no Close has been
\* invoked, initSuccess is the whole registered list in registration order
\* and afterInitSuccess is exactly the plugins implementing AfterInit.
C1_AllSucceed ==
    (StartReturned /\ ~AnyFailure /\ ~deadlineElapsed) =>
        /\ startResult = Success
        /\ Closes(bgLog) = <<>>
        /\ initSuccess = Asc(n - 1)
        /\ afterInitSuccess =
              SelectSeq(Asc(n - 1), LAMBDA i : hasAfterInit[i])

C1_Witness ==
    /\ StartReturned /\ ~AnyFailure /\ ~deadlineElapsed
    /\ n >= 2
    /\ \E i, j \in Plugins : hasAfterInit[i] /\ ~hasAfterInit[j]

\* the Close calls of the rollback of an Init failure at k, once Start has
\* returned: k, k-1, ..., 0 and Start reports the Init failure of k
InitFailureHandled(k) ==
    /\ startResult = InitFailureOf(k)
    /\ Idx(Closes(bgLog)) = Desc(k)

\* C2 as stated: if plugin k is the first whose Init fails, Close is invoked
\* during Start on k, k-1, ..., 0 and on no plugin above k, and Start
\* returns the Init failure naming k with its error.
C2_InitFailureRollback ==
    \A k \in Plugins :
        (StartReturned /\ initRes[k] = "fail") => InitFailureHandled(k)

\* C2 amended: the same, provided Start does not return a timeout (the
\* deadline does not elapse before the failure reaches Start).
C2_InitFailureRollbackNoTimeout ==
    \A k \in Plugins :
        (StartReturned /\ initRes[k] = "fail" /\ startResult.kind /= "timeout")
            => InitFailureHandled(k)

C2_Witness ==
    /\ StartReturned /\ startResult.kind = "Init"
    /\ n >= 3 /\ initRes[1] = "fail"

\* C3: once the Init of plugin k has failed, no Init has been invoked on a
\* plugin above k and no AfterInit on any plugin, in every later state too;
\* when the goroutine is through with the failure its calls are exactly
\* Init(0) .. Init(k), Close(k) .. Close(0).
C3_NoCallsPastInitFailure ==
    \A k \in Plugins :
        initRes[k] = "fail" =>
            /\ \A x \in 1 .. Len(bgLog) :
                  /\ bgLog[x].op = "Init" => bgLog[x].idx <= k
                  /\ bgLog[x].op /= "AfterInit"
            /\ bgpc \in {"sendErr", "blockedSend", "done"} =>
                  /\ Ops(bgLog) = [x \in 1 .. 2 * (k + 1) |->
                                      IF x <= k + 1 THEN "Init" ELSE "Close"]
                  /\ Idx(bgLog) = Asc(k) \o Desc(k)

C3_Witness ==
    /\ n >= 3 /\ initRes[1] = "fail"
    /\ bgpc \in {"blockedSend", "done"}
    /\ callerpc = "stopped"

\* the rollback of an AfterInit failure at k, once Start has returned: Close
\* on n-1, ..., 0, no AfterInit above k, Start reports the failure of k
AfterInitFailureHandled(k) ==
    /\ startResult = AfterInitFailureOf(k)
    /\ Idx(Closes(bgLog)) = Desc(n - 1)
    /\ \A i \in Plugins : i > k => ~Invoked(bgLog, "AfterInit", i)

\* C4 as stated: if every Init succeeded and plugin k is the first whose
\* AfterInit fails, Close is invoked on the whole registered list from the
\* last index down to 0, no AfterInit is invoked above k, and Start returns
\* the AfterInit failure naming k with its error.
C4_AfterInitFailureShutdown ==
    \A k \in Plugins :
        (StartReturned /\ afterInitRes[k] = "fail")
            => AfterInitFailureHandled(k)

\* C4 amended: the same, provided Start does not return a timeout.
C4_AfterInitFailureShutdownNoTimeout ==
    \A k \in Plugins :
        (StartReturned /\ afterInitRes[k] = "fail"
                       /\ startResult.kind /= "timeout")
            => AfterInitFailureHandled(k)

C4_Witness ==
    /\ StartReturned /\ startResult.kind = "AfterInit"
    /\ n >= 3 /\ afterInitRes[1] = "fail" /\ afterInitRes[0] = "ok"

\* C5: when Start returns a timeout, the name in it is the one that was
\* being processed at the moment the deadline expired.
C5_TimeoutNamesPluginAtExpiry ==
    [][(callerpc = "timeoutBranch" /\ callerpc' = "returned")
          => startResult' = TimeoutError(cpAtExpiry)]_vars

\* the plugin Close calls of a log: the entries where the plugin exposes Close
PluginCloses(lg) == SelectSeq(lg, LAMBDA c : c.op = "Close" /\ c.res /= "absent")

\* the Close calls of a log that returned an error
FailedCloses(lg) == SelectSeq(lg, LAMBDA c : c.op = "Close" /\ c.res = "fail")

\* how often a log holds a Close call of plugin i
CloseCountIn(lg, i) ==
    Cardinality({x \in 1 .. Len(lg) :
                    lg[x].op = "Close" /\ lg[x].res /= "absent" /\ lg[x].idx = i})

\* how often Close was invoked on plugin i, by the goroutine and by the caller
CloseCount(i) == CloseCountIn(bgLog, i) + CloseCountIn(callerLog, i)

\* C6: Stop on a running Agent (Start returned success) invokes Close once on
\* every plugin that exposes it, in reverse registration order, whatever the
\* Close calls return; it returns the names of the plugins whose Close
\* failed, in the order they were closed, and no error when none failed.
C6_StopOnRunningAgent ==
    (callerpc = "stopped" /\ startResult.kind = "success") =>
        /\ Ops(callerLog) = [x \in 1 .. n |-> "Close"]
        /\ Idx(callerLog) = Desc(n - 1)
        /\ Idx(PluginCloses(callerLog)) =
              SelectSeq(Desc(n - 1), LAMBDA i : hasClose[i])
        /\ \A i \in Plugins : CloseCount(i) = IF hasClose[i] THEN 1 ELSE 0
        /\ stopResult = Idx(FailedCloses(callerLog))

C6_Witness ==
    /\ callerpc = "stopped" /\ startResult.kind = "success"
    /\ n >= 3
    /\ callerLog[1].res = "fail" /\ callerLog[n].res = "ok"
    /\ \E i \in Plugins : ~hasClose[i]

\* C7: a plugin that does not implement AfterInit is never called AfterInit,
\* is never in afterInitSuccess and is never the plugin an AfterInit failure
\* names.
C7_NoAfterInitWithoutCapability ==
    \A i \in Plugins :
        ~hasAfterInit[i] =>
            /\ ~Invoked(bgLog, "AfterInit", i)
            /\ afterInitRes[i] = "none"
            /\ \A x \in 1 .. Len(afterInitSuccess) : afterInitSuccess[x] /= i
            /\ ~(startResult.kind = "AfterInit" /\ startResult.name = i)
            /\ ~(bgErr.kind = "AfterInit" /\ bgErr.name = i)

C7_Witness ==
    /\ n >= 3 /\ ~hasAfterInit[1] /\ hasAfterInit[2]
    /\ afterInitRes[2] = "fail"
    /\ StartReturned /\ startResult.kind = "AfterInit"

\* C8: when Start returns success every Init and every AfterInit of a capable
\* plugin has returned success and no Close has been invoked; when an Init or
\* AfterInit has failed Start does not return success, and when Start returns
\* the failure its rollback Close calls are all done.
C8_NeverHalfStarted ==
    /\ (StartReturned /\ startResult.kind = "success") =>
          /\ \A i \in Plugins :
                /\ initRes[i] = "ok"
                /\ hasAfterInit[i] => afterInitRes[i] = "ok"
          /\ Closes(bgLog) = <<>>
    /\ AnyFailure => startResult.kind /= "success"
    /\ (StartReturned /\ startResult.kind = "Init") =>
          /\ bgpc = "done"
          /\ initRes[startResult.name] = "fail"
          /\ Idx(Closes(bgLog)) = Desc(startResult.name)
    /\ (StartReturned /\ startResult.kind = "AfterInit") =>
          /\ bgpc = "done"
          /\ afterInitRes[startResult.name] = "fail"
          /\ Idx(Closes(bgLog)) = Desc(n - 1)

C8_Witness ==
    /\ StartReturned /\ startResult.kind = "AfterInit"
    /\ n >= 2 /\ startResult.name = n - 1

\* C9 as stated: in a lifetime of one Start with any outcome and at most one
\* Stop of the caller after Start has returned, Close is invoked at most once
\* on each plugin.
C9_CloseAtMostOnce ==
    \A i \in Plugins : CloseCount(i) <= 1

\* C9 amended: the same when the caller calls Stop only after Start has
\* returned success.
C9_CloseAtMostOnceStopAfterSuccess ==
    (callerpc \in {"stopping", "stopped"} => startResult.kind = "success")
        => \A i \in Plugins : CloseCount(i) <= 1

C9_Witness ==
    /\ callerpc = "stopped" /\ startResult.kind = "success"
    /\ n >= 2
    /\ \A i \in Plugins : hasClose[i] /\ CloseCount(i) = 1

\* C10: the Stop of the caller, after Start has returned whatever outcome,
\* goes through the registered list from the last plugin down to plugin 0
\* and invokes Close on each of them, also on the plugins whose Init failed
\* or was never invoked.
C10_StopIteratesRegisteredList ==
    /\ callerpc = "stopping" =>
          /\ Idx(callerLog) = SubSeq(Desc(n - 1), 1, n - 1 - callerJ)
          /\ Ops(callerLog) = [x \in 1 .. Len(callerLog) |-> "Close"]
    /\ callerpc = "stopped" =>
          /\ Idx(callerLog) = Desc(n - 1)
          /\ Ops(callerLog) = [x \in 1 .. n |-> "Close"]

C10_Witness ==
    /\ callerpc = "stopped"
    /\ n >= 3
    /\ startResult.kind = "Init" /\ initRes[1] = "fail" /\ initRes[2] = "none"

\* a sequence of numbers in strictly ascending order
Ascending(seq) ==
    \A x, y \in 1 .. Len(seq) : x < y => seq[x] < seq[y]

\* the entries of a log with operation op, in order
OpCalls(lg, op) == SelectSeq(lg, LAMBDA c : c.op = op)

\* C12: initSuccess and afterInitSuccess are always duplicate-free
\* subsequences of the registered list, in registration order, and
\* initSuccess is always a prefix of the registered list.
C12_SuccessListsAreSubsequences ==
    /\ Len(initSuccess) <= n
    /\ initSuccess = Asc(Len(initSuccess) - 1)
    /\ \A x \in 1 .. Len(afterInitSuccess) : afterInitSuccess[x] \in Plugins
    /\ Ascending(afterInitSuccess)

C12_Witness ==
    /\ n >= 3
    /\ initSuccess = Asc(n - 1)
    /\ Len(afterInitSuccess) >= 2
    /\ afterInitSuccess[1] = 0 /\ afterInitSuccess[2] = 2

\* C13: every plugin in afterInitSuccess is also in initSuccess and
\* implements AfterInit.
C13_AfterInitSuccessWithinInitSuccess ==
    \A x \in 1 .. Len(afterInitSuccess) :
        /\ \E y \in 1 .. Len(initSuccess) : initSuccess[y] = afterInitSuccess[x]
        /\ hasAfterInit[afterInitSuccess[x]]

C13_Witness ==
    /\ n >= 2
    /\ Len(afterInitSuccess) >= 1
    /\ \E i \in Plugins : ~hasAfterInit[i]

\* C14: Init of plugin i is invoked only after the Init of every plugin
\* below i has returned success; AfterInit is invoked only after every Init
\* has returned success; the Init calls and the AfterInit calls are made in
\* registration order; no Init or AfterInit call starts while another Init
\* or AfterInit call is in progress.
C14_StartupCallsStrictlyOrdered ==
    /\ \A i \in Plugins :
          /\ initRes[i] /= "none" => \A j \in 0 .. (i - 1) : initRes[j] = "ok"
          /\ afterInitRes[i] /= "none" => \A j \in Plugins : initRes[j] = "ok"
          /\ Invoked(bgLog, "Init", i) <=> initRes[i] /= "none"
          /\ Invoked(bgLog, "AfterInit", i) <=> afterInitRes[i] /= "none"
    /\ Ascending(Idx(OpCalls(bgLog, "Init")))
    /\ Ascending(Idx(OpCalls(bgLog, "AfterInit")))
    /\ \A x \in 1 .. Len(bgLog) :
          bgLog[x].op = "AfterInit" =>
              \A y \in 1 .. Len(bgLog) : bgLog[y].op = "Init" => y < x
    /\ Cardinality({i \in Plugins : initRes[i] = "running"}
                   \cup {n + i : i \in {j \in Plugins : afterInitRes[j] = "running"}})
          <= 1
    /\ \A i \in Plugins :
          (initRes[i] = "running" \/ afterInitRes[i] = "running") =>
              /\ bgLog[Len(bgLog)].idx = i
              /\ bgLog[Len(bgLog)].op \in {"Init", "AfterInit"}

C14_Witness ==
    /\ n >= 3
    /\ afterInitRes[0] = "ok" /\ afterInitRes[2] = "running"

\* the goroutine has finished the failed startup: its error is made up
BgFailed == bgpc \in {"sendErr", "blockedSend", "done"}

\* C15: an error of a Close call during the rollback of an Init failure or
\* during the shutdown after an AfterInit failure does not end the unwind
\* and does not change the error: the remaining plugins are closed in
\* descending order and the error handed to Start, and returned by it, names
\* the plugin whose Init or AfterInit failed and carries that call's error.
C15_RollbackCloseErrorsTolerated ==
    /\ \A k \in Plugins :
          /\ (initRes[k] = "fail" /\ BgFailed) =>
                /\ Idx(Closes(bgLog)) = Desc(k)
                /\ bgErr = InitFailureOf(k)
          /\ (afterInitRes[k] = "fail" /\ BgFailed) =>
                /\ Idx(Closes(bgLog)) = Desc(n - 1)
                /\ bgErr = AfterInitFailureOf(k)
    /\ startResult.kind \in {"Init", "AfterInit"} => startResult = bgErr

C15_Witness ==
    /\ n >= 3
    /\ StartReturned /\ startResult = InitFailureOf(2)
    /\ Len(bgLog) = 6
    /\ bgLog[4].res = "fail" /\ bgLog[5].res = "ok" /\ bgLog[6].res = "fail"

\* the members of a sequence
Members(seq) == {seq[x] : x \in 1 .. Len(seq)}

\* diff holds exactly the registered plugins that are not in success, in
\* registration order
IsNotCompleted(diff, success) ==
    /\ Ascending(diff)
    /\ Members(diff) \cap Members(success) = {}
    /\ Members(diff) \cup Members(success) = Plugins

\* C20: the not-completed list calculateDiff computes for a phase holds
\* exactly the registered plugins absent from the phase's success list, in
\* registration order: the two are disjoint and together cover the
\* registered list.
C20_CalculateDiffPartitions ==
    /\ IsNotCompleted(ErrInit, initSuccess)
    /\ IsNotCompleted(ErrAfterInit, afterInitSuccess)

C20_Witness ==
    /\ n >= 3
    /\ callerpc = "timeoutBranch"
    /\ ErrInit = <<>>
    /\ afterInitSuccess = <<0, 2>>
    /\ ErrAfterInit = <<1>>

\* the caller is inside Start
InStart == callerpc \in {"launched", "select", "timeoutBranch"}

\* C11: Start always returns, with exactly one of success, Init failure,
\* AfterInit failure and timeout, also when a plugin call never returns,
\* given only that the timer fires; the caller makes no plugin call in Start.
C11_StartAlwaysReturns ==
    /\ <>(startResult.kind \in {"success", "Init", "AfterInit", "timeout"})
    /\ [](InStart <=> (callerpc /= "idle" /\ startResult.kind = "none"))
    /\ [](InStart => callerLog = <<>>)
    /\ [][startResult.kind /= "none" => startResult' = startResult]_vars

C11_Witness ==
    /\ StartReturned /\ startResult.kind = "timeout"
    /\ n >= 2 /\ initRes[0] = "ok" /\ initRes[1] = "running"

\* C16: once the wait of Start has resolved and the caller reads
\* initSuccess, afterInitSuccess and currentlyProcessing, the goroutine
\* writes none of them any more, on every path.
C16_NoWriteOnceCallerReads ==
    [][(callerpc \in {"timeoutBranch", "returned", "stopping", "stopped"})
          => UNCHANGED <<initSuccess, afterInitSuccess, currentlyProcessing>>]_vars

\* the goroutine is not held up by the timeout: whatever it is at, its next
\* step can be taken
BgGoesOn ==
    /\ (bgpc = "init" /\ bgI < n) => ENABLED InitCall
    /\ (bgpc = "init" /\ bgI >= n) => ENABLED InitDone
    /\ bgpc = "inInit" => ENABLED InitReturn
    /\ bgpc = "rollback" => ENABLED RollbackClose
    /\ bgpc = "initFailed" => ENABLED InitFailed
    /\ (bgpc = "afterInit" /\ bgI < n) => ENABLED AfterInitCall
    /\ (bgpc = "afterInit" /\ bgI >= n) => ENABLED BgCloseDone
    /\ bgpc = "inAfterInit" => ENABLED AfterInitReturn
    /\ (bgpc = "bgStop" /\ bgJ >= 0) => ENABLED BgStopStep
    /\ (bgpc = "bgStop" /\ bgJ < 0) => ENABLED AfterInitFailed
    /\ bgpc = "sendErr" => ENABLED BgSendErr

\* C17: after the timer has fired the goroutine is not cancelled: it goes on
\* with the remaining Init and AfterInit calls and with the rollback of a
\* later failure; Start invokes no Close on the timeout path, and nothing the
\* goroutine does later changes the timeout Start returned.
C17_TimeoutLeavesGoroutineRunning ==
    /\ [](deadlineElapsed => BgGoesOn)
    /\ []((callerpc = "timeoutBranch"
             \/ (StartReturned /\ startResult.kind = "timeout"))
            => callerLog = <<>>)
    /\ [][callerpc = "timeoutBranch"
            => callerpc' \in {"timeoutBranch", "returned"}]_vars
    /\ [][startResult.kind = "timeout" => startResult' = startResult]_vars
    /\ [](bgpc = "blockedSend" /\ startResult.kind = "timeout"
            => bgErr.kind \in {"Init", "AfterInit"})

C17_Witness ==
    /\ StartReturned /\ startResult.kind = "timeout"
    /\ n >= 3
    /\ bgpc = "rollback" /\ bgI = 2 /\ bgJ = 1

\* C18: the goroutine launched by Start is never left blocked for ever: it
\* has ended, or it can take a step, or it waits on errChannel for a caller
\* that has yet to enter the select.
C18_GoroutineNeverStuck ==
    \/ bgpc \in {"idle", "done"}
    \/ ENABLED BgNext
    \/ (bgpc = "blockedSend" /\ ENABLED StartSelect)

\* C19: when ListenAndServe has returned an error before the 100 ms wait of
\* AfterInit is over, AfterInit returns that error, and it returns nil only
\* when no error was reported by then; the server goroutine is never left
\* blocked on errCh once the caller is past the point of receiving from it.
C19_HttpAfterInitReportsListenError ==
    /\ [][(httpPc /= "returned" /\ httpPc' = "returned")
            => httpResult' = (IF listenErr = "none" THEN "nil" ELSE listenErr)]_vars
    /\ [](serverPc = "blockedSend" => httpPc = "launched")

====
